---- MODULE Spec2Model ----
(***************************************************************************)
(* Model of the multi-location appointment scheduler backend               *)
(* (src/scheduling/4.multi_location_backend_api.js) against the schema of  *)
(* src/unnamed/part_001.                                                   *)
(*                                                                         *)
(* Two parts share the module:                                             *)
(*   - the slot generator generateTimeSlots, one loop iteration per step   *)
(*     (specification SpecGen);                                            *)
(*   - the reservation handlers POST /api/appointments and                 *)
(*     PUT /api/appointments/:id running concurrently against a            *)
(*     READ COMMITTED store with the no_double_booking constraint          *)
(*     (specifications Spec and FairSpec).                                 *)
(*                                                                         *)
(* Times of day are minutes since midnight.  A TIME value as the driver    *)
(* hands it to the code, and an 'HH:mm' string as the code formats it, is  *)
(* the pair <<hour, minute>>.                                              *)
(***************************************************************************)
EXTENDS Integers, Sequences, FiniteSets, TLC

(***************************************************************************)
(* Bounds of the model.                                                    *)
(***************************************************************************)
\* first minute of day of the window the generator's inputs are drawn from
DayBase == 58
\* length of that window in minutes (the window crosses 01:00)
Span == 4
\* largest slot duration tried, in minutes
MaxDur == 3
\* largest number of booked appointments handed to the generator
MaxBooked == 1

\* number of reservation requests of a run; each takes its own client
NumReqs == 2

\* a NULL column value
NULL == <<>>

\* an absent field of a request body (falsy in the handlers' `x || y`)
ABSENT == 0

Reqs == 1..NumReqs
\* pool clients the requests check out (the pool holds up to 20)
Conns == 1..NumReqs
\* appointments.id values: the seeded row and one per request
Ids == 1..(NumReqs + 1)

Physicians == {1, 2}
Locations == {1, 2}
\* the one appointment_date the requests are about
TheDate == 1
\* start and end times of the requests: 09:00-10:00 and 09:30-10:00
NineOClock == 540
HalfPastNine == 570
TenOClock == 600
StartTimes == {NineOClock, HalfPastNine}
Intervals == {<<NineOClock, TenOClock>>, <<HalfPastNine, TenOClock>>}

\* rows of physician_locations: physician 2 does not work at location 2
physician_locations == {<<1, 1>>, <<1, 2>>, <<2, 1>>}

\* appointments.status values that do not occupy a slot
InactiveStatuses == {"cancelled", "no_show"}

Times == DayBase..(DayBase + Span)
Durations == 1..MaxDur

(***************************************************************************)
(* moment.js as the generator uses it.                                     *)
(***************************************************************************)
\* the moment a string without a valid time parses to: it compares false
\* with every moment, itself included
InvalidMoment == 0 - 1

\* the fields are in range (24:00 is taken as the end of the day)
MomentIsValid(t) ==
    \/ t[1] \in 0..23 /\ t[2] \in 0..59
    \/ t = <<24, 0>>

\* moment(t, 'HH:mm') / moment(t, 'HH:mm:ss'): minutes since midnight, today
ParseTime(t) == IF MomentIsValid(t) THEN t[1] * 60 + t[2] ELSE InvalidMoment

\* a.isBefore(b), a.isAfter(b), a.isSameOrBefore(b), a.isSameOrAfter(b)
BothValid(a, b) == a # InvalidMoment /\ b # InvalidMoment
IsBefore(a, b) == BothValid(a, b) /\ a < b
IsAfter(a, b) == BothValid(a, b) /\ a > b
IsSameOrBefore(a, b) == BothValid(a, b) /\ a <= b
IsSameOrAfter(a, b) == BothValid(a, b) /\ a >= b

\* m.format('HH:mm'): the hour wraps at midnight
FormatHHmm(m) == <<(m \div 60) % 24, m % 60>>

\* m.isBetween(a, b, 'minute', '[)')
IsBetweenClosedOpen(m, a, b) == IsSameOrBefore(a, m) /\ IsBefore(m, b)

\* m.isBetween(a, b, 'minute', '(]')
IsBetweenOpenClosed(m, a, b) == IsBefore(a, m) /\ IsSameOrBefore(m, b)

\* the half-open overlap rule of the intervals [a1, a2) and [b1, b2)
Overlaps(a1, a2, b1, b2) == a1 < b2 /\ b1 < a2

(***************************************************************************)
(* State.                                                                  *)
(***************************************************************************)
VARIABLES
    \* ---- generateTimeSlots(schedule, bookedAppointments, slotDuration)
    schedule,            \* the physician_location_schedules row
    bookedAppointments,  \* rows {start_time, end_time} of active appointments
    slotDuration,        \* minutes
    currentTime,         \* the loop cursor, minutes since midnight
    slots,               \* the output array
    gpc,                 \* "loop" while the while-loop runs, then "done"
    \* ---- the store (committed state)
    appointments,        \* id -> row of the appointments table
    payments,            \* appointment_id -> location_id of its payments row
    reminders,           \* appointment_id -> number of appointment_reminders rows
    nextId,              \* the appointments_id_seq sequence
    \* ---- the pool's clients
    connOwner,           \* client -> request holding it, 0 when idle in the pool
    connInTxn,           \* client -> a transaction is open on its session
    pending,             \* uncommitted writes: records tagged with their client
    \* ---- the requests
    pc,                  \* request -> position in its handler
    body,                \* request -> the request (route and body fields)
    client,              \* request -> the client it checked out
    appointment,         \* request -> the row PUT read at line 711
    outcome,             \* request -> the response it sent, "" before
    \* ---- the schedule tables
    schedules,           \* rows of physician_location_schedules
    exceptions,          \* rows of physician_availability_exceptions
    \* ---- a read request (availability or alternatives)
    apc,                 \* "idle", "loop", "respond" or "done"
    query,               \* the route with its path and query parameters
    response,            \* the status and JSON body sent
    altRows,             \* alternativePhysicians.rows
    altP,                \* position of the for-of loop in altRows
    altDay,              \* i of the inner for loop
    alternatives         \* the alternatives array

gvars == <<schedule, bookedAppointments, slotDuration, currentTime, slots, gpc>>
dbvars == <<appointments, payments, reminders, nextId>>
connvars == <<connOwner, connInTxn, pending>>
reqvars == <<pc, body, client, appointment, outcome>>
bvars == <<dbvars, connvars, reqvars>>
tablevars == <<schedules, exceptions>>
readvars == <<apc, query, response, altRows, altP, altDay, alternatives>>
avars == <<tablevars, readvars>>

vars == <<gvars, bvars, avars>>

\* the default value of the slotDuration parameter
DefaultSlotDuration == 30

(***************************************************************************)
(* generateTimeSlots.                                                      *)
(***************************************************************************)
startTime == ParseTime(schedule.start_time)
endTime == ParseTime(schedule.end_time)
\* lunchStart && lunchEnd: both moments were built (the columns are not NULL)
hasLunch == schedule.lunch_start # NULL /\ schedule.lunch_end # NULL
lunchStart == ParseTime(schedule.lunch_start)
lunchEnd == ParseTime(schedule.lunch_end)

slotEnd == currentTime + slotDuration

\* the lunch test of the loop body
InLunchInclusive(cur, end) ==
    /\ hasLunch
    /\ \/ IsBetweenClosedOpen(cur, lunchStart, lunchEnd)
       \/ (lunchStart <= end /\ end <= lunchEnd)

InLunch(cur, end) ==
    /\ hasLunch
    /\ \/ IsBetweenClosedOpen(cur, lunchStart, lunchEnd)
       \/ IsBetweenOpenClosed(end, lunchStart, lunchEnd)

\* the callback of bookedAppointments.some
AptCoversNoContain(cur, end, apt) ==
    LET aptStart == ParseTime(apt.start_time)
        aptEnd == ParseTime(apt.end_time)
    IN  \/ IsBetweenClosedOpen(cur, aptStart, aptEnd)
        \/ IsBetweenOpenClosed(end, aptStart, aptEnd)

AptCovers(cur, end, apt) ==
    LET aptStart == ParseTime(apt.start_time)
        aptEnd == ParseTime(apt.end_time)
    IN  \/ IsBetweenClosedOpen(cur, aptStart, aptEnd)
        \/ IsBetweenOpenClosed(end, aptStart, aptEnd)
        \/ (IsSameOrBefore(cur, aptStart) /\ IsSameOrAfter(end, aptEnd))

isBooked(cur, end) == \E apt \in bookedAppointments : AptCovers(cur, end, apt)

\* slotEnd.isAfter(endTime): the candidate would extend past the end time
PastEndOff(end, limit) == end > limit + 1

PastEnd(end, limit) == IsAfter(end, limit)

\* currentTime.add(slotDuration, 'minutes') of the lunch branch
LunchAdvanceToLunchEnd(cur) == lunchEnd

LunchAdvance(cur) == cur + slotDuration

\* currentTime.add(slotDuration, 'minutes') at the end of the loop body
AdvanceOneMinute(cur) == cur + 1

Advance(cur) == cur + slotDuration

\* while (currentTime.isBefore(endTime)) is false
GenExit ==
    /\ gpc = "loop"
    /\ ~IsBefore(currentTime, endTime)
    /\ gpc' = "done"
    /\ UNCHANGED <<schedule, bookedAppointments, slotDuration, currentTime, slots>>
    /\ UNCHANGED bvars

\* if (slotEnd.isAfter(endTime)) break
GenBreak ==
    /\ gpc = "loop"
    /\ IsBefore(currentTime, endTime)
    /\ PastEnd(slotEnd, endTime)
    /\ gpc' = "done"
    /\ UNCHANGED <<schedule, bookedAppointments, slotDuration, currentTime, slots>>
    /\ UNCHANGED bvars

\* the lunch branch: advance and continue
GenSkipLunch ==
    /\ gpc = "loop"
    /\ IsBefore(currentTime, endTime)
    /\ ~PastEnd(slotEnd, endTime)
    /\ InLunch(currentTime, slotEnd)
    /\ currentTime' = LunchAdvance(currentTime)
    /\ UNCHANGED <<schedule, bookedAppointments, slotDuration, slots, gpc>>
    /\ UNCHANGED bvars

\* the candidate is booked: advance without emitting
GenSkipBooked ==
    /\ gpc = "loop"
    /\ IsBefore(currentTime, endTime)
    /\ ~PastEnd(slotEnd, endTime)
    /\ ~InLunch(currentTime, slotEnd)
    /\ isBooked(currentTime, slotEnd)
    /\ currentTime' = Advance(currentTime)
    /\ UNCHANGED <<schedule, bookedAppointments, slotDuration, slots, gpc>>
    /\ UNCHANGED bvars

\* slots.push({start, end, available: true}) and advance
GenEmit ==
    /\ gpc = "loop"
    /\ IsBefore(currentTime, endTime)
    /\ ~PastEnd(slotEnd, endTime)
    /\ ~InLunch(currentTime, slotEnd)
    /\ ~isBooked(currentTime, slotEnd)
    /\ slots' = Append(slots, [start |-> FormatHHmm(currentTime),
                               end |-> FormatHHmm(slotEnd),
                               available |-> TRUE])
    /\ currentTime' = Advance(currentTime)
    /\ UNCHANGED <<schedule, bookedAppointments, slotDuration, gpc>>
    /\ UNCHANGED bvars

\* the intervals [a, b) with a < b inside [lo, hi]
IntervalsIn(lo, hi) == {iv \in (lo..hi) \X (lo..hi) : iv[1] < iv[2]}

\* booked rows: any start_time, end_time of the window (end >= start)
AptRows == {[start_time |-> FormatHHmm(a), end_time |-> FormatHHmm(b)] :
               <<a, b>> \in {iv \in Times \X Times : iv[1] <= iv[2]}}


(***************************************************************************)
(* The store: PostgreSQL at its default isolation level READ COMMITTED.    *)
(* A statement sees the committed rows and the writes of its own           *)
(* transaction; the handlers set no isolation level and take no lock.      *)
(***************************************************************************)
NoRow == [physician_id |-> 0, location_id |-> 0, appointment_date |-> 0,
          start_time |-> 0, end_time |-> 0, status |-> "none"]

NoBody == [route |-> "", id |-> ABSENT, physicianId |-> ABSENT,
           locationId |-> ABSENT, startTime |-> ABSENT, endTime |-> ABSENT]

\* req.user: a patient with a patients row, a patient without one, staff
Users == {"patient", "no_profile", "staff"}
UserRole(u) == IF u = "staff" THEN "staff" ELSE "patient"
HasPatientRow(u) == u = "patient"

\* the appointment rows a statement on client c sees
VisibleAppointments(c) ==
    LET own == {w \in pending : w.conn = c /\ w.kind = "appointment"}
    IN  [i \in DOMAIN appointments \cup {w.id : w \in own} |->
            IF \E w \in own : w.id = i
            THEN (CHOOSE w \in own : w.id = i).row
            ELSE appointments[i]]

\* the columns of CONSTRAINT no_double_booking
UniqueKey(row) == <<row.physician_id, row.appointment_date, row.start_time>>

\* an uncommitted insert of another session holds the key: the insert waits
InsertWaits(c, row) ==
    \E w \in pending :
        /\ w.kind = "appointment"
        /\ w.conn # c
        /\ UniqueKey(w.row) = UniqueKey(row)

\* a visible row holds the key: unique_violation
InsertNeverViolates(c, row) == FALSE

InsertViolates(c, row) ==
    \E i \in DOMAIN VisibleAppointments(c) :
        UniqueKey(VisibleAppointments(c)[i]) = UniqueKey(row)

\* COMMIT on client c: its writes become the committed state
CommittedAppointments(c) == VisibleAppointments(c)

CommittedPayments(c) ==
    LET own == {w \in pending : w.conn = c /\ w.kind \in {"payment", "payment_location"}}
        touched == {w.id : w \in own}
    IN  [i \in DOMAIN payments \cup {w.id : w \in {x \in own : x.kind = "payment"}} |->
            IF i \in touched
            THEN (CHOOSE w \in own : w.id = i).location_id
            ELSE payments[i]]

CommittedReminders(c) ==
    LET own == {w \in pending : w.conn = c /\ w.kind = "reminders"}
    IN  [i \in DOMAIN reminders \cup {w.id : w \in own} |->
            IF \E w \in own : w.id = i
            THEN (CHOOSE w \in own : w.id = i).count
            ELSE reminders[i]]

\* the writes left once the transaction of client c has ended
WithoutWritesOf(c) == {w \in pending : w.conn # c}

(***************************************************************************)
(* Steps shared by the two handlers.                                       *)
(***************************************************************************)
\* return res.status(4xx).json(...) inside try, then finally client.release()
ReturnEarly(r, result) ==
    /\ outcome' = [outcome EXCEPT ![r] = result]
    /\ pc' = [pc EXCEPT ![r] = "done"]
    /\ connOwner' = [connOwner EXCEPT ![client[r]] = 0]
    /\ client' = [client EXCEPT ![r] = 0]
    /\ appointment' = [appointment EXCEPT ![r] = NoRow]
    /\ UNCHANGED <<connInTxn, pending, dbvars, body>>

\* const client = await pool.connect(): any idle client of the pool.  The
\* requests are numbered in their order of arrival, and of the idle clients
\* in the same session state the lowest stands for all.
Checkout(r, b) ==
    /\ pc[r] = "idle"
    /\ \A q \in Reqs : q < r => pc[q] # "idle"
    /\ \E c \in Conns :
         /\ connOwner[c] = 0
         /\ \A d \in Conns :
               (d < c /\ connOwner[d] = 0) => connInTxn[d] # connInTxn[c]
         /\ connOwner' = [connOwner EXCEPT ![c] = r]
         /\ client' = [client EXCEPT ![r] = c]
    /\ body' = [body EXCEPT ![r] = b]
    /\ pc' = [pc EXCEPT ![r] = "begin"]
    /\ UNCHANGED <<connInTxn, pending, dbvars, appointment, outcome, gvars>>

\* await client.query('BEGIN'): a no-op (with a warning) when the session
\* still has a transaction open
Begin(r, route, next) ==
    /\ pc[r] = "begin"
    /\ body[r].route = route
    /\ connInTxn' = [connInTxn EXCEPT ![client[r]] = TRUE]
    /\ pc' = [pc EXCEPT ![r] = next]
    /\ UNCHANGED <<connOwner, pending, dbvars, body, client, appointment, outcome, gvars>>

\* catch: await client.query('ROLLBACK'); res.status(500); finally release
Catch(r, route) ==
    /\ pc[r] = "catch"
    /\ body[r].route = route
    /\ pending' = WithoutWritesOf(client[r])
    /\ connInTxn' = [connInTxn EXCEPT ![client[r]] = FALSE]
    /\ connOwner' = [connOwner EXCEPT ![client[r]] = 0]
    /\ client' = [client EXCEPT ![r] = 0]
    /\ outcome' = [outcome EXCEPT ![r] = "Failed"]
    /\ pc' = [pc EXCEPT ![r] = "done"]
    /\ appointment' = [appointment EXCEPT ![r] = NoRow]
    /\ UNCHANGED <<dbvars, body, gvars>>

(***************************************************************************)
(* POST /api/appointments.                                                 *)
(***************************************************************************)
PostBodies ==
    {[route |-> "POST", id |-> ABSENT, physicianId |-> p, locationId |-> l,
      startTime |-> iv[1], endTime |-> iv[2]] :
        p \in Physicians, l \in Locations, iv \in Intervals}

\* the row the INSERT of line 546 builds (status takes its default)
NewRow(b) ==
    [physician_id |-> b.physicianId, location_id |-> b.locationId,
     appointment_date |-> TheDate, start_time |-> b.startTime,
     end_time |-> b.endTime, status |-> "scheduled"]

\* the rows of the "Check slot availability" query
ExistingAppointmentAnyStatus(c, b) ==
    {i \in DOMAIN VisibleAppointments(c) :
        LET a == VisibleAppointments(c)[i]
        IN  /\ a.physician_id = b.physicianId
            /\ a.location_id = b.locationId
            /\ a.appointment_date = TheDate
            /\ a.start_time = b.startTime}

ExistingAppointment(c, b) ==
    {i \in DOMAIN VisibleAppointments(c) :
        LET a == VisibleAppointments(c)[i]
        IN  /\ a.physician_id = b.physicianId
            /\ a.location_id = b.locationId
            /\ a.appointment_date = TheDate
            /\ a.start_time = b.startTime
            /\ a.status \notin InactiveStatuses}

PostConnect(r) == \E b \in PostBodies : Checkout(r, b)

PostBegin(r) == Begin(r, "POST", "validate")

\* the patient lookup and the physician_locations lookup (both tables are
\* fixed here, so the two awaits are one step)
PostValidate(r) ==
    /\ pc[r] = "validate"
    /\ body[r].route = "POST"
    /\ \E user \in Users :
         IF UserRole(user) = "patient" /\ ~HasPatientRow(user)
         THEN ReturnEarly(r, "PatientNotFound")
         ELSE IF <<body[r].physicianId, body[r].locationId>> \notin physician_locations
         THEN ReturnEarly(r, "PhysicianNotAtLocation")
         ELSE /\ pc' = [pc EXCEPT ![r] = "check"]
              /\ UNCHANGED <<connvars, dbvars, body, client, appointment, outcome>>
    /\ UNCHANGED gvars

\* the availability query and its early return
PostCheck(r) ==
    /\ pc[r] = "check"
    /\ body[r].route = "POST"
    /\ IF ExistingAppointment(client[r], body[r]) # {}
       THEN ReturnEarly(r, "SlotConflict")
       ELSE /\ pc' = [pc EXCEPT ![r] = "insert"]
            /\ UNCHANGED <<connvars, dbvars, body, client, appointment, outcome>>
    /\ UNCHANGED gvars

\* INSERT INTO appointments ... RETURNING *, and on success INSERT INTO
\* payments and INSERT INTO appointment_reminders for 24 and 2 hours (no
\* other session reads or locks those rows before the COMMIT)
PostInsert(r) ==
    /\ pc[r] = "insert"
    /\ ~InsertWaits(client[r], NewRow(body[r]))
    /\ nextId \in Ids
    /\ nextId' = nextId + 1
    /\ IF InsertViolates(client[r], NewRow(body[r]))
       THEN /\ pc' = [pc EXCEPT ![r] = "catch"]
            /\ UNCHANGED pending
       ELSE /\ pending' = pending \cup
                  {[conn |-> client[r], kind |-> "appointment", id |-> nextId,
                    row |-> NewRow(body[r]), location_id |-> 0, count |-> 0],
                   [conn |-> client[r], kind |-> "payment", id |-> nextId,
                    row |-> NoRow, location_id |-> body[r].locationId, count |-> 0],
                   [conn |-> client[r], kind |-> "reminders", id |-> nextId,
                    row |-> NoRow, location_id |-> 0, count |-> 2]}
            /\ pc' = [pc EXCEPT ![r] = "commit"]
    /\ UNCHANGED <<appointments, payments, reminders, connOwner, connInTxn,
                   body, client, appointment, outcome, gvars>>

\* await client.query('COMMIT')
PostCommit(r) ==
    /\ pc[r] = "commit"
    /\ appointments' = CommittedAppointments(client[r])
    /\ payments' = CommittedPayments(client[r])
    /\ reminders' = CommittedReminders(client[r])
    /\ pending' = WithoutWritesOf(client[r])
    /\ connInTxn' = [connInTxn EXCEPT ![client[r]] = FALSE]
    /\ pc' = [pc EXCEPT ![r] = "respond"]
    /\ UNCHANGED <<nextId, connOwner, body, client, appointment, outcome, gvars>>

\* the details query through the pool, res.json, finally client.release()
PostRespond(r) ==
    /\ pc[r] = "respond"
    /\ outcome' = [outcome EXCEPT ![r] = "success"]
    /\ pc' = [pc EXCEPT ![r] = "done"]
    /\ connOwner' = [connOwner EXCEPT ![client[r]] = 0]
    /\ client' = [client EXCEPT ![r] = 0]
    /\ UNCHANGED <<connInTxn, pending, dbvars, body, appointment, gvars>>

PostCatch(r) == Catch(r, "POST")

(***************************************************************************)
(* PUT /api/appointments/:id.                                              *)
(***************************************************************************)
\* the appointments a PUT may name: the seeded one and the first created
PutIds == {1, 2}

\* appointmentDate, endTime, status, notes are left out of the bodies: the
\* date is the appointment's own, the others reach only the UPDATE text
PutBodies ==
    {[route |-> "PUT", id |-> i, physicianId |-> p, locationId |-> l,
      startTime |-> t, endTime |-> ABSENT] :
        i \in PutIds, p \in {ABSENT, 2}, l \in {ABSENT, 2},
        t \in StartTimes \cup {ABSENT}}

\* x || y of the handler
OrElse(x, y) == IF x # ABSENT THEN x ELSE y

\* if (appointmentDate || startTime || locationId || physicianId)
IsReschedule(b) ==
    b.startTime # ABSENT \/ b.locationId # ABSENT \/ b.physicianId # ABSENT

newPhysicianId(r) == OrElse(body[r].physicianId, appointment[r].physician_id)
newLocationId(r) == OrElse(body[r].locationId, appointment[r].location_id)
newDate(r) == appointment[r].appointment_date
newStartTime(r) == OrElse(body[r].startTime, appointment[r].start_time)

\* if (locationId && locationId !== appointment.location_id)
LocationChanged(b, row) == b.locationId # ABSENT /\ b.locationId # row.location_id

\* the rows of the "Check for conflicts at new time/location" query
ConflictCheckWithSelf(r) ==
    {i \in DOMAIN VisibleAppointments(client[r]) :
        LET a == VisibleAppointments(client[r])[i]
        IN  /\ a.physician_id = newPhysicianId(r)
            /\ a.location_id = newLocationId(r)
            /\ a.appointment_date = newDate(r)
            /\ a.start_time = newStartTime(r)
            /\ a.status \notin InactiveStatuses}

ConflictCheck(r) ==
    {i \in DOMAIN VisibleAppointments(client[r]) :
        LET a == VisibleAppointments(client[r])[i]
        IN  /\ a.physician_id = newPhysicianId(r)
            /\ a.location_id = newLocationId(r)
            /\ a.appointment_date = newDate(r)
            /\ a.start_time = newStartTime(r)
            /\ a.status \notin InactiveStatuses
            /\ i # body[r].id}

\* the text of updateQuery holds the one placeholder $1: every later
\* `${++paramCount}` interpolates a bare integer, not $n
UpdatePlaceholders == 1

\* params: req.user.id, one value per field present, id
UpdateParams(b) ==
    1 + Cardinality({f \in {"startTime", "locationId", "physicianId"} : b[f] # ABSENT}) + 1

PutConnect(r) == \E b \in PutBodies : Checkout(r, b)

PutBegin(r) == Begin(r, "PUT", "select")

\* SELECT * FROM appointments WHERE id = $1, then the authorization check
PutSelect(r) ==
    /\ pc[r] = "select"
    /\ LET rows == VisibleAppointments(client[r])
       IN  IF body[r].id \notin DOMAIN rows
           THEN ReturnEarly(r, "NotFound")
           ELSE \E user \in Users :
                  IF UserRole(user) = "patient" /\ ~HasPatientRow(user)
                  THEN ReturnEarly(r, "Unauthorized")
                  ELSE /\ appointment' = [appointment EXCEPT ![r] = rows[body[r].id]]
                       /\ pc' = [pc EXCEPT ![r] =
                             IF ~IsReschedule(body[r]) THEN "update"
                             ELSE IF LocationChanged(body[r], rows[body[r].id])
                                  THEN "validate" ELSE "check"]
                       /\ UNCHANGED <<connvars, dbvars, body, client, outcome>>
    /\ UNCHANGED gvars

\* validate that the physician works at the new location
PutValidate(r) ==
    /\ pc[r] = "validate"
    /\ body[r].route = "PUT"
    /\ IF <<newPhysicianId(r), newLocationId(r)>> \notin physician_locations
       THEN ReturnEarly(r, "PhysicianNotAtLocation")
       ELSE /\ pc' = [pc EXCEPT ![r] = "check"]
            /\ UNCHANGED <<connvars, dbvars, body, client, appointment, outcome>>
    /\ UNCHANGED gvars

\* the conflict query and its early return
PutCheck(r) ==
    /\ pc[r] = "check"
    /\ body[r].route = "PUT"
    /\ IF ConflictCheck(r) # {}
       THEN ReturnEarly(r, "SlotConflict")
       ELSE /\ pc' = [pc EXCEPT ![r] =
                  IF body[r].locationId # ABSENT THEN "payments" ELSE "update"]
            /\ UNCHANGED <<connvars, dbvars, body, client, appointment, outcome>>
    /\ UNCHANGED gvars

\* another session holds the row lock of the payments row
PaymentRowLocked(c, i) ==
    \E w \in pending : w.conn # c /\ w.kind = "payment_location" /\ w.id = i

\* UPDATE payments SET location_id = $1 WHERE appointment_id = $2
PutUpdatePayments(r) ==
    /\ pc[r] = "payments"
    /\ ~PaymentRowLocked(client[r], body[r].id)
    /\ pending' =
          IF body[r].id \in DOMAIN payments
          THEN pending \cup
                 {[conn |-> client[r], kind |-> "payment_location", id |-> body[r].id,
                   row |-> NoRow, location_id |-> body[r].locationId, count |-> 0]}
          ELSE pending
    /\ pc' = [pc EXCEPT ![r] = "update"]
    /\ UNCHANGED <<dbvars, connOwner, connInTxn, body, client, appointment, outcome, gvars>>

\* await client.query(updateQuery, params): the server rejects a Bind whose
\* parameter count differs from the statement's, and the handler goes to catch
PutUpdate(r) ==
    /\ pc[r] = "update"
    /\ UpdateParams(body[r]) # UpdatePlaceholders
    /\ pc' = [pc EXCEPT ![r] = "catch"]
    /\ UNCHANGED <<dbvars, connvars, body, client, appointment, outcome, gvars>>

PutCatch(r) == Catch(r, "PUT")

(***************************************************************************)
(* The schedule tables and the two read handlers,                          *)
(* GET /api/physicians/:id/availability and                                *)
(* GET /api/appointments/:id/alternatives.  They query through the pool,   *)
(* outside any transaction, and see the committed rows.                    *)
(***************************************************************************)
\* moment(date).day(): dates are day numbers, day 0 a Sunday
Weekday(date) == date % 7

\* a TIME column as the driver returns it
TimeColumn(m) == <<m \div 60, m % 60>>

\* generateTimeSlots as a function of its arguments: the loop from cur on
RECURSIVE SlotsFrom(_, _, _, _)
SlotsFrom(sched, booked, d, cur) ==
    LET end == cur + d
        limit == ParseTime(sched.end_time)
        lunch == sched.lunch_start # NULL /\ sched.lunch_end # NULL
    IN  IF ~IsBefore(cur, limit) \/ PastEnd(end, limit)
        THEN <<>>
        ELSE IF lunch /\ (\/ IsBetweenClosedOpen(cur, ParseTime(sched.lunch_start),
                                                 ParseTime(sched.lunch_end))
                          \/ IsBetweenOpenClosed(end, ParseTime(sched.lunch_start),
                                                 ParseTime(sched.lunch_end)))
        THEN SlotsFrom(sched, booked, d, cur + d)
        ELSE IF \E apt \in booked : AptCovers(cur, end, apt)
        THEN SlotsFrom(sched, booked, d, cur + d)
        ELSE <<[start |-> FormatHHmm(cur), end |-> FormatHHmm(end),
                available |-> TRUE]>>
             \o SlotsFrom(sched, booked, d, cur + d)

generateTimeSlots(sched, booked, d) ==
    SlotsFrom(sched, booked, d, ParseTime(sched.start_time))

\* the hours a roster may have: those of a reservation, or a longer morning
EightOClock == 480
RosterHours == Intervals \cup {<<EightOClock, TenOClock>>}

\* a roster's rows are effective since yesterday ("current"), from tomorrow
\* ("future"), or until tomorrow ("expired"); in a "superseded" roster one
\* row has a successor, effective today, beside it
Eras == {"current", "future", "expired", "superseded"}

\* a row of physician_location_schedules (ABSENT stands for a NULL
\* expiry_date)
ScheduleRow(pl, dow, hours, active, effective, expiry) ==
    [physician_id |-> pl[1], location_id |-> pl[2], day_of_week |-> dow,
     start_time |-> TimeColumn(hours[1]), end_time |-> TimeColumn(hours[2]),
     lunch_start |-> NULL, lunch_end |-> NULL, break_times |-> <<>>,
     is_active |-> active, effective_date |-> effective, expiry_date |-> expiry]

\* the weekly roster: every assigned physician works the same hours at each
\* of their locations every day; rows of a rest day are kept but inactive
Roster(hours, restOn, era) ==
    {ScheduleRow(pl, dow, hours, ~(restOn /\ dow = Weekday(TheDate + 1)),
                 IF era = "future" THEN TheDate + 1 ELSE TheDate - 1,
                 IF era = "expired" THEN TheDate + 1 ELSE ABSENT) :
        pl \in physician_locations, dow \in 0..6}
    \cup
    (IF era = "superseded"
     THEN {ScheduleRow(<<2, 1>>, Weekday(TheDate + 1), <<HalfPastNine, TenOClock>>,
                       TRUE, TheDate, ABSENT)}
     ELSE {})

\* the dates a request may name
AvailDates == {TheDate, TheDate + 1}

\* rows of physician_availability_exceptions: one per (physician, location,
\* date), the location_id column being nullable (ABSENT stands for its NULL:
\* the exception names no location); a modified_hours row carries the
\* override times
ExceptionChoices ==
    {[physician_id |-> pl[1], location_id |-> pl[2], exception_date |-> dt,
      exception_type |-> ty,
      start_time |-> IF ty = "modified_hours" THEN TimeColumn(HalfPastNine) ELSE NULL,
      end_time |-> IF ty = "modified_hours" THEN TimeColumn(TenOClock) ELSE NULL,
      reason |-> "leave"] :
        pl \in physician_locations \cup (Physicians \X {ABSENT}),
        dt \in AvailDates,
        ty \in {"unavailable", "modified_hours"}}

NoQuery == [route |-> "", id |-> ABSENT, date |-> ABSENT, locationId |-> ABSENT,
            dateRange |-> 0]
NoResponse == [status |-> 0]

\* no read request has arrived
ReadsQuiet ==
    /\ apc = "idle"
    /\ query = NoQuery
    /\ response = NoResponse
    /\ altRows = <<>>
    /\ altP = 1
    /\ altDay = 0
    /\ alternatives = <<>>

\* the schedule query: active rows of the physician for the weekday, at the
\* location when locationId is given
ScheduleRowsAnyState(id, dow, loc) ==
    {sc \in schedules :
        /\ sc.physician_id = id
        /\ sc.day_of_week = dow
        /\ (loc # ABSENT => sc.location_id = loc)}

ScheduleRows(id, dow, loc) ==
    {sc \in schedules :
        /\ sc.physician_id = id
        /\ sc.day_of_week = dow
        /\ sc.is_active
        /\ (loc # ABSENT => sc.location_id = loc)}

\* start_time, end_time of the physician's active appointments of the date
\* at one location (the appointments query, then the location filter)
LocationAppointments(id, date, loc) ==
    {[start_time |-> TimeColumn(appointments[i].start_time),
      end_time |-> TimeColumn(appointments[i].end_time)] :
        i \in {j \in DOMAIN appointments :
                 /\ appointments[j].physician_id = id
                 /\ appointments[j].appointment_date = date
                 /\ appointments[j].status \notin InactiveStatuses
                 /\ appointments[j].location_id = loc}}

\* exceptions.rows.find(exc => exc.location_id === schedule.location_id)
LocationException(id, date, loc) ==
    {exc \in exceptions :
        /\ exc.physician_id = id
        /\ exc.exception_date = date
        /\ exc.location_id = loc}

\* locationException.exception_type === 'unavailable'
IsUnavailableNever(exc) == FALSE

IsUnavailable(exc) == exc.exception_type = "unavailable"

\* a report without the reason key
NoReason == ""

\* the callback of schedules.rows.map
LocationReportOpen(sc, id, date) ==
    LET found == LocationException(id, date, sc.location_id)
        made == generateTimeSlots(sc, LocationAppointments(id, date, sc.location_id),
                                  DefaultSlotDuration)
    IN  IF \E exc \in found : IsUnavailable(exc)
        THEN [location_id |-> sc.location_id, available |-> FALSE, slots |-> <<>>,
              reason |-> (CHOOSE exc \in found : TRUE).reason]
        ELSE [location_id |-> sc.location_id, available |-> TRUE,
              slots |-> made, reason |-> NoReason]

LocationReport(sc, id, date) ==
    LET found == LocationException(id, date, sc.location_id)
        made == generateTimeSlots(sc, LocationAppointments(id, date, sc.location_id),
                                  DefaultSlotDuration)
    IN  IF \E exc \in found : IsUnavailable(exc)
        THEN [location_id |-> sc.location_id, available |-> FALSE, slots |-> <<>>,
              reason |-> (CHOOSE exc \in found : TRUE).reason]
        ELSE [location_id |-> sc.location_id, available |-> Len(made) > 0,
              slots |-> made, reason |-> NoReason]

\* the orders in which a query without ORDER BY may return the rows
Orderings(rows) ==
    {f \in [1..Cardinality(rows) -> rows] : \A x \in rows : \E k \in DOMAIN f : f[k] = x}

AvailQueries ==
    {[route |-> "availability", id |-> i, date |-> dt, locationId |-> l,
      dateRange |-> 0] :
        i \in Physicians, dt \in AvailDates \cup {ABSENT}, l \in Locations \cup {ABSENT}}

\* GET /api/physicians/:id/availability
GetAvailability ==
    /\ apc = "idle"
    /\ \E q \in AvailQueries :
         /\ query' = q
         /\ IF q.date = ABSENT
            THEN response' = [status |-> 400, error |-> "Date is required"]
            ELSE LET rows == ScheduleRows(q.id, Weekday(q.date), q.locationId)
                 IN  IF rows = {}
                     THEN response' = [status |-> 200, available |-> FALSE,
                                       locations |-> <<>>]
                     ELSE \E ord \in Orderings(rows) :
                            LET locationAvailability ==
                                  [k \in DOMAIN ord |-> LocationReport(ord[k], q.id, q.date)]
                            IN  response' =
                                  [status |-> 200,
                                   available |-> \E k \in DOMAIN ord :
                                                    locationAvailability[k].available,
                                   locations |-> locationAvailability]
    /\ apc' = "done"
    /\ UNCHANGED <<tablevars, altRows, altP, altDay, alternatives, gvars, bvars>>

\* the window of the search in days
MaxDateRange == 4

AltQueries ==
    {[route |-> "alternatives", id |-> i, date |-> ABSENT, locationId |-> l,
      dateRange |-> n] :
        i \in PutIds, l \in Locations \cup {ABSENT}, n \in 1..MaxDateRange}

\* GET /api/appointments/:id/alternatives.  Its first query selects
\* p.specialty while its FROM clause binds only the aliases a and ph: the
\* server rejects the statement, pool.query throws and the handler answers
\* from its catch block
FindAlternatives ==
    /\ apc = "idle"
    /\ \E q \in AltQueries : query' = q
    /\ response' = [status |-> 500, error |-> "Failed to fetch alternatives"]
    /\ apc' = "done"
    /\ UNCHANGED <<tablevars, altRows, altP, altDay, alternatives, gvars, bvars>>

\* moment(): the day of the request
Today == TheDate

\* the alternativePhysicians query: the (physician, location) assignments of
\* the active physicians of the specialty (here all of them), at the
\* preferred location when one is given
AlternativePhysicians(pref) ==
    {pl \in physician_locations : pref # ABSENT => pl[2] = pref}

\* ORDER BY u.last_name, u.first_name: by physician, the rows of one
\* physician in any order
AltOrderings(rows) ==
    {f \in Orderings(rows) :
        \A j \in DOMAIN f, k \in DOMAIN f : j < k => f[j][1] <= f[k][1]}

\* the cap on the number of alternatives, and of slots shown per alternative
AlternativesCap == 10
SlotsShown == 3

\* alternatives.length >= 10
LimitReachedLate(alts) == Len(alts) > AlternativesCap

LimitReached(alts) == Len(alts) >= AlternativesCap

\* slots.slice(0, 3)
FirstSlotsAll(made) == made

FirstSlots(made) ==
    SubSeq(made, 1, IF Len(made) < SlotsShown THEN Len(made) ELSE SlotsShown)

\* the alternative pushed for a (physician, location, date) with free slots
Alternative(pl, checkDate, made) ==
    [physician_id |-> pl[1], location_id |-> pl[2], date |-> checkDate,
     available_slots |-> FirstSlots(made)]

\* one pass of the inner for loop: the schedule query, the appointments
\* query, generateTimeSlots, the push and the two limit tests
\* i < dateRange, the test of the inner for loop
WithinWindowInclusive(i, dateRange) == i <= dateRange

WithinWindow(i, dateRange) == i < dateRange

AltIterate ==
    /\ apc = "loop"
    /\ altP <= Len(altRows)
    /\ WithinWindow(altDay, query.dateRange)
    /\ LET physician == altRows[altP]
           checkDate == Today + altDay
           rows == ScheduleRows(physician[1], Weekday(checkDate), physician[2])
           advance == /\ apc' = "loop"
                      /\ IF WithinWindow(altDay + 1, query.dateRange)
                         THEN altDay' = altDay + 1 /\ altP' = altP
                         ELSE altDay' = 0 /\ altP' = altP + 1
       IN  IF rows = {}
           THEN alternatives' = alternatives /\ advance
           ELSE \E sc \in rows :
                  LET existing == LocationAppointments(physician[1], checkDate, physician[2])
                      made == generateTimeSlots(sc, existing, DefaultSlotDuration)
                      pushed == Append(alternatives, Alternative(physician, checkDate, made))
                  IN  IF Len(made) = 0
                      THEN alternatives' = alternatives /\ advance
                      ELSE /\ alternatives' = pushed
                           /\ IF LimitReached(pushed)
                              THEN apc' = "respond" /\ UNCHANGED <<altP, altDay>>
                              ELSE advance
    /\ UNCHANGED <<tablevars, query, response, altRows, gvars, bvars>>

\* the for-of loop has run through alternativePhysicians.rows
AltExit ==
    /\ apc = "loop"
    /\ altP > Len(altRows)
    /\ apc' = "respond"
    /\ UNCHANGED <<tablevars, query, response, altRows, altP, altDay, alternatives,
                   gvars, bvars>>

\* res.json(alternatives)
AltRespond ==
    /\ apc = "respond"
    /\ response' = [status |-> 200, alternatives |-> alternatives]
    /\ apc' = "done"
    /\ UNCHANGED <<tablevars, query, altRows, altP, altDay, alternatives, gvars, bvars>>

(***************************************************************************)
(* The reservation system.                                                 *)
(***************************************************************************)
\* the row the store may hold when the server starts
SeedRow(st) ==
    [physician_id |-> 1, location_id |-> 1, appointment_date |-> TheDate,
     start_time |-> NineOClock, end_time |-> TenOClock, status |-> st]

SeedStatuses == {"scheduled", "cancelled", "no_show"}

\* the generator is not running
GenQuiet ==
    /\ schedule = [start_time |-> FormatHHmm(NineOClock), end_time |-> FormatHHmm(TenOClock),
                   lunch_start |-> NULL, lunch_end |-> NULL, break_times |-> <<>>]
    /\ bookedAppointments = {}
    /\ slotDuration = 30
    /\ currentTime = TenOClock
    /\ slots = <<>>
    /\ gpc = "done"

\* no request has arrived and every client is idle
RequestsQuiet ==
    /\ connOwner = [c \in Conns |-> 0]
    /\ connInTxn = [c \in Conns |-> FALSE]
    /\ pending = {}
    /\ pc = [r \in Reqs |-> "idle"]
    /\ body = [r \in Reqs |-> NoBody]
    /\ client = [r \in Reqs |-> 0]
    /\ appointment = [r \in Reqs |-> NoRow]
    /\ outcome = [r \in Reqs |-> ""]

\* the store when the server starts: empty, or holding one appointment
SeededStore ==
    \/ /\ appointments = <<>>
       /\ payments = <<>>
       /\ reminders = <<>>
       /\ nextId = 1
    \/ \E st \in SeedStatuses :
       /\ appointments = (1 :> SeedRow(st))
       /\ payments = (1 :> 1)
       /\ reminders = (1 :> 2)
       /\ nextId = 2

\* the schedule tables are empty
NoTables ==
    /\ schedules = {}
    /\ exceptions = {}

Init ==
    /\ GenQuiet
    /\ RequestsQuiet
    /\ SeededStore
    /\ NoTables
    /\ ReadsQuiet

Next ==
    /\ UNCHANGED avars
    /\ \E r \in Reqs :
        \/ PostConnect(r)
        \/ PostBegin(r)
        \/ PostValidate(r)
        \/ PostCheck(r)
        \/ PostInsert(r)
        \/ PostCommit(r)
        \/ PostRespond(r)
        \/ PostCatch(r)
        \/ PutConnect(r)
        \/ PutBegin(r)
        \/ PutSelect(r)
        \/ PutValidate(r)
        \/ PutCheck(r)
        \/ PutUpdatePayments(r)
        \/ PutUpdate(r)
        \/ PutCatch(r)

Spec == Init /\ [][Next]_vars

\* the steps of a request once it holds its client: each is the continuation
\* of an awaited query, which the event loop runs once the store has answered
Step(r) ==
    /\ UNCHANGED avars
    /\ \/ PostBegin(r) \/ PostValidate(r) \/ PostCheck(r) \/ PostInsert(r)
       \/ PostCommit(r) \/ PostRespond(r) \/ PostCatch(r)
       \/ PutBegin(r) \/ PutSelect(r) \/ PutValidate(r) \/ PutCheck(r)
       \/ PutUpdatePayments(r) \/ PutUpdate(r) \/ PutCatch(r)

FairSpec == Spec /\ \A r \in Reqs : WF_vars(Step(r))

(***************************************************************************)
(* Properties of the reservation handlers.                                 *)
(***************************************************************************)
\* a row that occupies its slot
IsActive(row) == row.status \notin {"cancelled", "no_show"}

\* the (physician, location, date, start-time) of a row
SlotOf(row) ==
    <<row.physician_id, row.location_id, row.appointment_date, row.start_time>>

\* the slot a request asks for: the body's fields, and for a reschedule the
\* stored appointment's where the body has none
TargetOf(r) ==
    IF body[r].route = "POST"
    THEN <<body[r].physicianId, body[r].locationId, TheDate, body[r].startTime>>
    ELSE LET cur == IF body[r].id \in DOMAIN appointments
                    THEN appointments[body[r].id] ELSE NoRow
         IN  <<OrElse(body[r].physicianId, cur.physician_id),
               OrElse(body[r].locationId, cur.location_id),
               cur.appointment_date,
               OrElse(body[r].startTime, cur.start_time)>>

InFlight(r) == pc[r] \notin {"idle", "done"}

\* C2: under every interleaving of reservation attempts there are never two
\* active appointments for one (physician, location, date, start-time), no
\* two attempts for the same tuple both succeed, and every attempt that
\* started completes.
C2_NoTwoActiveForSlot ==
    /\ \A i \in DOMAIN appointments : \A j \in DOMAIN appointments :
          (i # j /\ IsActive(appointments[i]) /\ IsActive(appointments[j]))
              => SlotOf(appointments[i]) # SlotOf(appointments[j])
    /\ \A r \in Reqs : \A q \in Reqs :
          (r # q /\ outcome[r] = "success" /\ outcome[q] = "success")
              => TargetOf(r) # TargetOf(q)

C2_OneWinnerAndAllComplete ==
    /\ []C2_NoTwoActiveForSlot
    /\ \A r \in Reqs : InFlight(r) ~> (pc[r] = "done")

\* C2 witness: two attempts for the same tuple have both completed, one of
\* them successfully, the other after waiting on the first one's insert.
C2_Witness ==
    \E r \in Reqs : \E q \in Reqs :
        /\ r # q
        /\ pc[r] = "done" /\ pc[q] = "done"
        /\ body[r].route = "POST" /\ body[q].route = "POST"
        /\ TargetOf(r) = TargetOf(q)
        /\ outcome[r] = "success"
        /\ outcome[q] = "Failed"

\* the key of the row the store may hold at the start
SeedKey == UniqueKey(SeedRow("scheduled"))

\* C3 (as claimed): of two reservation attempts for the identical tuple on a
\* free slot, both valid otherwise, one returns success and the other returns
\* SlotConflict, no other failure kind.
C3_OneSuccessOneSlotConflict ==
    \A r \in Reqs : \A q \in Reqs :
        ( /\ r # q
          /\ body[r].route = "POST" /\ body[q].route = "POST"
          /\ pc[r] = "done" /\ pc[q] = "done"
          /\ TargetOf(r) = TargetOf(q)
          /\ UniqueKey(NewRow(body[r])) # SeedKey
          /\ {outcome[r], outcome[q]} \cap {"PatientNotFound", "PhysicianNotAtLocation"} = {} )
        => {outcome[r], outcome[q]} = {"success", "SlotConflict"}

\* the target of request r is held by an active appointment other than the
\* one r reschedules
HeldByOther(r) ==
    \E i \in DOMAIN appointments :
        /\ IsActive(appointments[i])
        /\ SlotOf(appointments[i]) = TargetOf(r)
        /\ body[r].route = "PUT" => i # body[r].id

\* C4: a reservation or reschedule that reaches the conflict guard while its
\* target is held by an active appointment other than the one rescheduled
\* fails with SlotConflict and writes nothing to appointments, payments or
\* reminders; otherwise (the target free, or held only by the appointment
\* being rescheduled) the guard does not answer SlotConflict.
C4_GuardStep(r) ==
    (pc[r] = "check" /\ pc'[r] # "check") =>
        IF HeldByOther(r)
        THEN /\ outcome'[r] = "SlotConflict"
             /\ pc'[r] = "done"
             /\ appointments' = appointments
             /\ payments' = payments
             /\ reminders' = reminders
             /\ ~\E w \in pending' : w.conn = client[r]
        ELSE outcome'[r] # "SlotConflict"

C4_ConflictGuard == [][\A r \in Reqs : C4_GuardStep(r)]_vars

\* C4 witness: a reschedule was refused with SlotConflict while the store
\* holds the rescheduled appointment and the active one in its way.
C4_Witness ==
    \E r \in Reqs :
        /\ body[r].route = "PUT"
        /\ outcome[r] = "SlotConflict"
        /\ body[r].id \in DOMAIN appointments
        /\ HeldByOther(r)

\* C5 (as claimed): no client is back in the pool with a transaction open.
C5_NoOpenTransactionInPool ==
    \A c \in Conns : connOwner[c] = 0 => ~connInTxn[c]

\* C6 (as claimed): no two active appointments (neither cancelled nor
\* no-show) of the same physician on the same date overlap in time.
C6_NoOverlapForPhysician ==
    \A i \in DOMAIN appointments : \A j \in DOMAIN appointments :
        ( /\ i # j
          /\ IsActive(appointments[i])
          /\ IsActive(appointments[j])
          /\ appointments[i].physician_id = appointments[j].physician_id
          /\ appointments[i].appointment_date = appointments[j].appointment_date )
        => ~Overlaps(appointments[i].start_time, appointments[i].end_time,
                     appointments[j].start_time, appointments[j].end_time)

\* the (physician, location) pair the request would leave the appointment with
ResultingPair(r) ==
    IF body[r].route = "POST"
    THEN <<body[r].physicianId, body[r].locationId>>
    ELSE <<newPhysicianId(r), newLocationId(r)>>

\* the request has passed the place of the assignment validation
PastAssignmentValidation(r) ==
    \/ body[r].route = "POST" /\ pc[r] \in {"check", "insert", "commit", "respond"}
    \/ body[r].route = "PUT" /\ pc[r] \in {"check", "payments", "update"}

\* C16 (as claimed): a reservation or reschedule whose resulting (physician,
\* location) pair has no physician-location assignment is rejected with
\* PhysicianNotAtLocation: it never gets past the assignment validation, also
\* when the reschedule changes only the physician.
C16_UnassignedPairRejected ==
    \A r \in Reqs :
        PastAssignmentValidation(r) => ResultingPair(r) \in physician_locations

\* an active appointment visible to request r holds the key of the row r inserts
ActiveHoldsKey(r) ==
    \E i \in DOMAIN VisibleAppointments(client[r]) :
        /\ IsActive(VisibleAppointments(client[r])[i])
        /\ UniqueKey(VisibleAppointments(client[r])[i]) = UniqueKey(NewRow(body[r]))

\* C27: a cancelled or no-show row never blocks re-booking of its slot: a
\* new reservation whose INSERT is turned away by the store is one whose
\* (physician, date, start-time) is held by an active appointment.
C27_InactiveRowNeverBlocks ==
    \A r \in Reqs :
        (body[r].route = "POST" /\ pc[r] = "catch") => ActiveHoldsKey(r)

\* C28: a reservation for a (physician, date, start-time) actively booked at
\* a different location is never accepted, and its rejection is reported as
\* SlotConflict, not as a generic failure.
C28_OtherLocationIsSlotConflict ==
    \A r \in Reqs :
        ( /\ body[r].route = "POST"
          /\ pc[r] = "done"
          /\ \E i \in DOMAIN appointments :
                /\ IsActive(appointments[i])
                /\ UniqueKey(appointments[i]) = UniqueKey(NewRow(body[r]))
                /\ appointments[i].location_id # body[r].locationId )
        => outcome[r] \notin {"success", "Failed"}

(***************************************************************************)
(* The slot generator on its own.                                          *)
(***************************************************************************)
\* a full working day: 08:00-17:00 with lunch 12:00-13:00
ExampleSchedule ==
    [start_time |-> <<8, 0>>, end_time |-> <<17, 0>>,
     lunch_start |-> <<12, 0>>, lunch_end |-> <<13, 0>>, break_times |-> <<>>]

\* schedule rows one of whose times is no time of day: the start, or the end
\* of lunch
NoTimeOfDay == <<25, 0>>
MalformedSchedules ==
    {[start_time |-> NoTimeOfDay, end_time |-> FormatHHmm(DayBase + Span),
      lunch_start |-> NULL, lunch_end |-> NULL, break_times |-> <<>>],
     [start_time |-> FormatHHmm(DayBase), end_time |-> FormatHHmm(DayBase + Span),
      lunch_start |-> FormatHHmm(DayBase), lunch_end |-> NoTimeOfDay,
      break_times |-> <<>>]}

\* the call: a schedule row with start < end, lunch and a break inside it,
\* or the full working day at the default duration with nothing booked, or a
\* row with a malformed time
GenInit ==
    /\ \/ /\ \E s \in Times, e \in Times :
               /\ s < e
               /\ \E lunch \in {NULL} \cup IntervalsIn(s, e),
                     brk \in {NULL} \cup IntervalsIn(s, e) :
                    schedule =
                      [start_time |-> FormatHHmm(s),
                       end_time |-> FormatHHmm(e),
                       lunch_start |-> IF lunch = NULL THEN NULL ELSE FormatHHmm(lunch[1]),
                       lunch_end |-> IF lunch = NULL THEN NULL ELSE FormatHHmm(lunch[2]),
                       break_times |-> IF brk = NULL THEN <<>>
                                       ELSE <<[start |-> FormatHHmm(brk[1]),
                                               end |-> FormatHHmm(brk[2])]>>]
          /\ bookedAppointments \in {b \in SUBSET AptRows : Cardinality(b) <= MaxBooked}
          /\ slotDuration \in Durations
       \/ /\ schedule = ExampleSchedule
          /\ bookedAppointments = {}
          /\ slotDuration = DefaultSlotDuration
       \/ /\ schedule \in MalformedSchedules
          /\ bookedAppointments = {}
          /\ slotDuration \in Durations
    /\ currentTime = startTime
    /\ slots = <<>>
    /\ gpc = "loop"
    /\ RequestsQuiet
    /\ appointments = <<>>
    /\ payments = <<>>
    /\ reminders = <<>>
    /\ nextId = 1
    /\ NoTables
    /\ ReadsQuiet

GenNext ==
    /\ UNCHANGED avars
    /\ (GenExit \/ GenBreak \/ GenSkipLunch \/ GenSkipBooked \/ GenEmit)

SpecGen == GenInit /\ [][GenNext]_vars

(***************************************************************************)
(* The slot sweep of router.get('/:id/available-slots'), on the generator's *)
(* variables: schedule is schedule.rows[0], bookedAppointments is           *)
(* appointments.rows, slotDuration is the 'duration' query parameter.       *)
(***************************************************************************)
\* the values 'duration' is drawn from: negative, zero and positive
LegacyDurations == (0 - MaxDur)..MaxDur

\* the sweep is followed for at most this many emitted slots
MaxSlots == Span + 1

\* moment(`${date} ${column}`, 'YYYY-MM-DD HH:mm:ss'): a NULL column leaves
\* the time of day at 00:00
MomentOfColumn(column) == IF column = NULL THEN 0 ELSE ParseTime(column)

endMoment == MomentOfColumn(schedule.end_time)
lunchStartMoment == MomentOfColumn(schedule.lunch_start)
lunchEndMoment == MomentOfColumn(schedule.lunch_end)

\* currentTime.isSameOrAfter(lunchStartMoment) && currentTime.isBefore(lunchEndMoment)
LegacyInLunch(cur) ==
    IsSameOrAfter(cur, lunchStartMoment) /\ IsBefore(cur, lunchEndMoment)

\* appointments.rows.some(apt => currentTime.isBefore(aptEnd) && slotEnd.isAfter(aptStart))
LegacyIsBooked(cur, end) ==
    \E apt \in bookedAppointments :
        /\ IsBefore(cur, MomentOfColumn(apt.end_time))
        /\ IsAfter(end, MomentOfColumn(apt.start_time))

\* while (currentTime.isBefore(endMoment)) is false: res.json({ slots })
LegacyExit ==
    /\ gpc = "loop"
    /\ ~IsBefore(currentTime, endMoment)
    /\ gpc' = "done"
    /\ UNCHANGED <<schedule, bookedAppointments, slotDuration, currentTime, slots>>
    /\ UNCHANGED <<bvars, avars>>

\* currentTime = lunchEndMoment.clone(); continue
LegacySkipLunch ==
    /\ gpc = "loop"
    /\ IsBefore(currentTime, endMoment)
    /\ LegacyInLunch(currentTime)
    /\ currentTime' = lunchEndMoment
    /\ UNCHANGED <<schedule, bookedAppointments, slotDuration, slots, gpc>>
    /\ UNCHANGED <<bvars, avars>>

\* isBooked: currentTime.add(duration, 'minutes') without a push
LegacySkipBooked ==
    /\ gpc = "loop"
    /\ IsBefore(currentTime, endMoment)
    /\ ~LegacyInLunch(currentTime)
    /\ LegacyIsBooked(currentTime, slotEnd)
    /\ currentTime' = currentTime + slotDuration
    /\ UNCHANGED <<schedule, bookedAppointments, slotDuration, slots, gpc>>
    /\ UNCHANGED <<bvars, avars>>

\* slots.push({ start, end }) and currentTime.add(duration, 'minutes')
LegacyEmit ==
    /\ gpc = "loop"
    /\ IsBefore(currentTime, endMoment)
    /\ ~LegacyInLunch(currentTime)
    /\ ~LegacyIsBooked(currentTime, slotEnd)
    /\ Len(slots) < MaxSlots
    /\ slots' = Append(slots, [start |-> FormatHHmm(currentTime),
                               end |-> FormatHHmm(slotEnd)])
    /\ currentTime' = currentTime + slotDuration
    /\ UNCHANGED <<schedule, bookedAppointments, slotDuration, gpc>>
    /\ UNCHANGED <<bvars, avars>>

\* the sweep starts: slots = [], currentTime at start_time
LegacyInit ==
    /\ \E s \in Times, e \in Times :
          /\ s < e
          /\ \E lunch \in {NULL} \cup IntervalsIn(s, e) :
                schedule =
                  [start_time |-> FormatHHmm(s),
                   end_time |-> FormatHHmm(e),
                   lunch_start |-> IF lunch = NULL THEN NULL ELSE FormatHHmm(lunch[1]),
                   lunch_end |-> IF lunch = NULL THEN NULL ELSE FormatHHmm(lunch[2]),
                   break_times |-> <<>>]
    /\ bookedAppointments \in {b \in SUBSET AptRows : Cardinality(b) <= MaxBooked}
    /\ slotDuration \in LegacyDurations
    /\ currentTime = MomentOfColumn(schedule.start_time)
    /\ slots = <<>>
    /\ gpc = "loop"
    /\ RequestsQuiet
    /\ appointments = <<>>
    /\ payments = <<>>
    /\ reminders = <<>>
    /\ nextId = 1
    /\ NoTables
    /\ ReadsQuiet

LegacyNext == LegacyExit \/ LegacySkipLunch \/ LegacySkipBooked \/ LegacyEmit

SpecLegacy == LegacyInit /\ [][LegacyNext]_vars

\* the handler keeps running while an iteration is enabled
FairSpecLegacy == SpecLegacy /\ WF_vars(LegacyNext)

(***************************************************************************)
(* The read handlers over a filled schedule.                               *)
(***************************************************************************)
\* the roster and at most one exception row
TablesInit ==
    /\ \E hours \in RosterHours, restOn \in BOOLEAN, era \in Eras :
          schedules = Roster(hours, restOn, era)
    /\ exceptions \in {{}} \cup {{exc} : exc \in ExceptionChoices}

AvailInit ==
    /\ GenQuiet
    /\ RequestsQuiet
    /\ SeededStore
    /\ TablesInit
    /\ ReadsQuiet

AvailNext == GetAvailability \/ FindAlternatives

SpecAvail == AvailInit /\ [][AvailNext]_vars

\* the search loop of the alternatives handler on its own: from the
\* declaration of the alternatives array, on the rows of alternativePhysicians
AltInit ==
    /\ GenQuiet
    /\ RequestsQuiet
    /\ SeededStore
    /\ TablesInit
    /\ apc = "loop"
    /\ query \in AltQueries
    /\ response = NoResponse
    /\ altRows \in AltOrderings(AlternativePhysicians(query.locationId))
    /\ altP = 1
    /\ altDay = 0
    /\ alternatives = <<>>

AltNext == AltIterate \/ AltExit \/ AltRespond

SpecAlt == AltInit /\ [][AltNext]_vars

(***************************************************************************)
(* Properties of the slot generator (checked under SpecGen).               *)
(***************************************************************************)
\* an emitted slot read back from its 'HH:mm' strings
SlotStart(i) == ParseTime(slots[i].start)
SlotEnd(i) == ParseTime(slots[i].end)

\* the k-th candidate of the grid anchored at the working-period start
GridStart(k) == startTime + k * slotDuration
GridEnd(k) == startTime + (k + 1) * slotDuration
GridIndexes == 0..Span
InPeriod(k) == GridStart(k) < endTime /\ GridEnd(k) <= endTime

\* C1: no emitted slot overlaps, under the half-open rule, any booked interval
\* handed to generateTimeSlots (bookings containing the slot and bookings
\* contained in the slot included).
C1_NoSlotOverlapsBooked ==
    \A i \in 1..Len(slots) : \A apt \in bookedAppointments :
        ~Overlaps(SlotStart(i), SlotEnd(i),
                  ParseTime(apt.start_time), ParseTime(apt.end_time))

\* C1 witness: the sweep finished over a period one of whose candidates
\* strictly contains a booked interval, and emitted nothing there.
C1_Witness ==
    /\ gpc = "done"
    /\ \E apt \in bookedAppointments : \E k \in GridIndexes :
          /\ InPeriod(k)
          /\ GridStart(k) < ParseTime(apt.start_time)
          /\ ParseTime(apt.start_time) < ParseTime(apt.end_time)
          /\ ParseTime(apt.end_time) < GridEnd(k)

\* C7 (as claimed): no emitted slot overlaps the lunch interval.
C7_NoSlotOverlapsLunch ==
    hasLunch =>
        \A i \in 1..Len(slots) :
            ~Overlaps(SlotStart(i), SlotEnd(i), lunchStart, lunchEnd)

\* C8 (as claimed): no emitted slot overlaps a break interval of break_times.
C8_NoSlotOverlapsBreak ==
    \A i \in 1..Len(slots) : \A j \in 1..Len(schedule.break_times) :
        ~Overlaps(SlotStart(i), SlotEnd(i),
                  ParseTime(schedule.break_times[j].start),
                  ParseTime(schedule.break_times[j].end))

\* C9: every emitted slot ends at or before the working-period end, and when
\* end - start is no multiple of the duration the remainder yields no slot
\* (the slots fit in the whole multiples of the duration).
C9_SlotsEndWithinPeriod ==
    /\ \A i \in 1..Len(slots) : SlotEnd(i) <= endTime
    /\ Len(slots) <= (endTime - startTime) \div slotDuration

\* C9 witness: a finished sweep over a period that is no multiple of the
\* duration, whose last whole candidate was emitted.
C9_Witness ==
    /\ gpc = "done"
    /\ (endTime - startTime) % slotDuration # 0
    /\ Len(slots) >= 1
    /\ SlotEnd(Len(slots)) + slotDuration > endTime
    /\ SlotEnd(Len(slots)) < endTime

\* the grid index of the i-th emitted slot
GridIndexOf(i) == (SlotStart(i) - startTime) \div slotDuration

\* C10: every emitted slot is [start + k*d, start + (k+1)*d) for an integer
\* k >= 0, with k strictly increasing along the output; so the slots are
\* earliest first, pairwise disjoint and each of length d.
C10_SlotsOnStartGrid ==
    /\ \A i \in 1..Len(slots) :
          /\ SlotStart(i) >= startTime
          /\ (SlotStart(i) - startTime) % slotDuration = 0
          /\ SlotEnd(i) = SlotStart(i) + slotDuration
    /\ \A i \in 1..(Len(slots) - 1) :
          /\ GridIndexOf(i) < GridIndexOf(i + 1)
          /\ SlotEnd(i) <= SlotStart(i + 1)

\* C10 witness: a slot emitted after a skipped lunch candidate (its grid index
\* exceeds the number of slots emitted before it) while the lunch end is off
\* the grid.
C10_Witness ==
    /\ gpc = "done"
    /\ hasLunch
    /\ (lunchEnd - startTime) % slotDuration # 0
    /\ \E i \in 1..Len(slots) :
          /\ SlotStart(i) >= lunchEnd
          /\ GridIndexOf(i) > i - 1

\* C11 (as claimed): each emitted slot starts exactly where the previously
\* emitted slot ends.
C11_ConsecutiveContiguous ==
    \A i \in 1..(Len(slots) - 1) : SlotStart(i + 1) = SlotEnd(i)

\* C11 (amended): consecutive slots never overlap: each emitted slot starts
\* where the previous one ends or a whole number of slot durations later, and
\* with no lunch and nothing booked it starts exactly where the previous ends.
C11_ConsecutiveDisjoint ==
    /\ \A i \in 1..(Len(slots) - 1) :
          /\ SlotStart(i + 1) >= SlotEnd(i)
          /\ (SlotStart(i + 1) - SlotEnd(i)) % slotDuration = 0
    /\ (~hasLunch /\ bookedAppointments = {}) =>
          \A i \in 1..(Len(slots) - 1) : SlotStart(i + 1) = SlotEnd(i)

\* C11 witness: a finished sweep that emitted a slot, skipped at least one
\* candidate and emitted again.
C11_Witness ==
    /\ gpc = "done"
    /\ \E i \in 1..(Len(slots) - 1) : SlotStart(i + 1) > SlotEnd(i)

\* the slots of the full working day: eight from 08:00, eight from 13:00
ExampleStart(i) ==
    IF i <= 8 THEN ParseTime(<<8, 0>>) + (i - 1) * DefaultSlotDuration
    ELSE ParseTime(<<13, 0>>) + (i - 9) * DefaultSlotDuration

ExampleDone ==
    /\ schedule = ExampleSchedule
    /\ slotDuration = DefaultSlotDuration
    /\ bookedAppointments = {}
    /\ gpc = "done"

\* C19 (as claimed): for 08:00-17:00 with lunch 12:00-13:00, duration 30 and
\* no bookings, the slots start 08:00, ..., 11:30 and 13:00, ..., 16:30, there
\* are 18 of them, and none starts at 12:00 or 12:30.
C19_ExampleEighteenSlots ==
    ExampleDone =>
        /\ Len(slots) = 18
        /\ \A i \in 1..Len(slots) :
              /\ SlotStart(i) # ParseTime(<<12, 0>>)
              /\ SlotStart(i) # ParseTime(<<12, 30>>)

\* C19 (amended): for the same call the slots are exactly those starting
\* 08:00, 08:30, ..., 11:30 and 13:00, 13:30, ..., 16:30, each 30 minutes
\* long: 16 slots in total, none starting at 12:00 or 12:30.
C19_ExampleSixteenSlots ==
    ExampleDone =>
        /\ Len(slots) = 16
        /\ \A i \in 1..Len(slots) :
              /\ slots[i].start = FormatHHmm(ExampleStart(i))
              /\ slots[i].end = FormatHHmm(ExampleStart(i) + DefaultSlotDuration)
              /\ slots[i].available
              /\ SlotStart(i) # ParseTime(<<12, 0>>)
              /\ SlotStart(i) # ParseTime(<<12, 30>>)

\* C19 witness: the sweep over the full working day has finished and emitted
\* the slot that starts at 16:30.
C19_Witness ==
    /\ ExampleDone
    /\ \E i \in 1..Len(slots) : slots[i].start = <<16, 30>>

\* a valid time of day, 00:00 to 23:59
IsTimeOfDay(t) == t[1] \in 0..23 /\ t[2] \in 0..59

AtCandidate ==
    /\ gpc = "loop"
    /\ IsBefore(currentTime, endTime)
    /\ ~PastEnd(slotEnd, endTime)

\* C20 (as claimed): the booked test agrees with overlaps(a, b) for every
\* candidate slot and every booked interval, back-to-back and zero-length
\* booked intervals included.
C20_BookedTestIsOverlaps ==
    AtCandidate =>
        \A apt \in bookedAppointments :
            AptCovers(currentTime, slotEnd, apt)
              <=> Overlaps(currentTime, slotEnd,
                           ParseTime(apt.start_time), ParseTime(apt.end_time))

(***************************************************************************)
(* Properties of the availability handler (checked under SpecAvail).       *)
(***************************************************************************)
\* the availability handler has answered with a result
AvailAnswered ==
    /\ apc = "done"
    /\ query.route = "availability"
    /\ response.status = 200

\* the exception rows of a kind for the physician and date of the query
ExceptionsFor(kind) ==
    {exc \in exceptions :
        /\ exc.exception_type = kind
        /\ exc.physician_id = query.id
        /\ exc.exception_date = query.date}

\* the physician has an active working period at loc on the weekday of date
WorksAt(id, date, loc) ==
    \E sc \in schedules :
        /\ sc.physician_id = id
        /\ sc.day_of_week = Weekday(date)
        /\ sc.is_active
        /\ sc.location_id = loc

\* C12: when an 'unavailable' exception exists for (physician, location,
\* date), the result for that physician and date reports the location (which
\* has a working period that weekday and is not filtered out) with
\* available = false, an empty slot list and the exception's reason.
C12_UnavailableSuppresses ==
    AvailAnswered =>
        \A exc \in ExceptionsFor("unavailable") :
            /\ \A k \in DOMAIN response.locations :
                  response.locations[k].location_id = exc.location_id =>
                      /\ ~response.locations[k].available
                      /\ response.locations[k].slots = <<>>
                      /\ response.locations[k].reason = exc.reason
            /\ (/\ WorksAt(query.id, query.date, exc.location_id)
                /\ query.locationId \in {ABSENT, exc.location_id})
                 => \E k \in DOMAIN response.locations :
                       response.locations[k].location_id = exc.location_id

\* C12 witness: a result that reports a location under an 'unavailable'
\* exception whose working period would otherwise yield slots.
C12_Witness ==
    /\ AvailAnswered
    /\ \E exc \in ExceptionsFor("unavailable") :
          /\ \E k \in DOMAIN response.locations :
                response.locations[k].location_id = exc.location_id
          /\ \E sc \in schedules :
                /\ sc.physician_id = query.id
                /\ sc.day_of_week = Weekday(query.date)
                /\ sc.location_id = exc.location_id
                /\ generateTimeSlots(sc, LocationAppointments(query.id, query.date,
                                                              exc.location_id),
                                     DefaultSlotDuration) # <<>>

\* C13 (as claimed): when a 'modified_hours' exception exists for (physician,
\* location, date), the slots reported for the location are generated from
\* the exception's start and end times, not from the working period's.
C13_ModifiedHoursOverride ==
    AvailAnswered =>
        \A exc \in ExceptionsFor("modified_hours") :
            \A k \in DOMAIN response.locations :
                response.locations[k].location_id = exc.location_id =>
                    \E sc \in schedules :
                        /\ sc.physician_id = query.id
                        /\ sc.day_of_week = Weekday(query.date)
                        /\ sc.is_active
                        /\ sc.location_id = exc.location_id
                        /\ response.locations[k].slots =
                             generateTimeSlots(
                                 [sc EXCEPT !.start_time = exc.start_time,
                                            !.end_time = exc.end_time],
                                 LocationAppointments(query.id, query.date,
                                                      exc.location_id),
                                 DefaultSlotDuration)

\* C17: in every result the aggregate 'available' is true iff some location
\* report has a non-empty slot list, and each location report's 'available'
\* is true exactly when its slot list is non-empty.
C17_AvailableIffSlots ==
    AvailAnswered =>
        /\ response.available <=>
              \E k \in DOMAIN response.locations :
                  Len(response.locations[k].slots) > 0
        /\ \A k \in DOMAIN response.locations :
              response.locations[k].available <=>
                  Len(response.locations[k].slots) > 0

\* C17 witness: a result with a location whose working period is fully
\* booked (no exception) next to a location that has a free slot.
C17_Witness ==
    /\ AvailAnswered
    /\ \E k \in DOMAIN response.locations :
          /\ response.locations[k].slots = <<>>
          /\ response.locations[k].reason = NoReason
    /\ \E k \in DOMAIN response.locations :
          response.locations[k].slots # <<>>

\* C18: when the physician has no active working period at any (or at the
\* filtered) location for the weekday of the requested date, the handler
\* answers 200 with available = false and an empty location list.
C18_NoScheduleIsEmptyResult ==
    (/\ apc = "done"
     /\ query.route = "availability"
     /\ query.date # ABSENT
     /\ \A loc \in Locations :
           (query.locationId \in {ABSENT, loc}) => ~WorksAt(query.id, query.date, loc))
      => response = [status |-> 200, available |-> FALSE, locations |-> <<>>]

\* C18 witness: the answer to a query without location filter, for a weekday
\* on which the physician's working periods are all inactive.
C18_Witness ==
    /\ apc = "done"
    /\ query.route = "availability"
    /\ query.date # ABSENT
    /\ query.locationId = ABSENT
    /\ \A loc \in Locations : ~WorksAt(query.id, query.date, loc)
    /\ \E sc \in schedules :
          sc.physician_id = query.id /\ sc.day_of_week = Weekday(query.date)
    /\ response.status = 200

\* the working period is in effect on the date: within
\* [effective_date, expiry_date), unbounded when there is no expiry date
InEffect(sc, date) ==
    /\ sc.effective_date <= date
    /\ (sc.expiry_date = ABSENT \/ date < sc.expiry_date)

\* C22 (as claimed): a working period contributes to a result only if it is
\* active and in effect on the requested date: every location report comes
\* from such a working period of that location.
C22_OnlyEffectivePeriods ==
    AvailAnswered =>
        \A k \in DOMAIN response.locations :
            \E sc \in schedules :
                /\ sc.physician_id = query.id
                /\ sc.day_of_week = Weekday(query.date)
                /\ sc.location_id = response.locations[k].location_id
                /\ sc.is_active
                /\ InEffect(sc, query.date)

\* C23 (as claimed): when several active working periods match the same
\* physician, location and weekday, exactly one is used: a result holds at
\* most one location report per location.
C23_OneReportPerLocation ==
    AvailAnswered =>
        \A j \in DOMAIN response.locations, k \in DOMAIN response.locations :
            response.locations[j].location_id = response.locations[k].location_id
              => j = k

\* C21 (as claimed): when no exception exists for (physician, location, date)
\* but a location-agnostic 'unavailable' exception (location null) exists for
\* (physician, date), every location the physician works that day is reported
\* with no slots.
C21_AgnosticExceptionApplies ==
    AvailAnswered =>
        \A exc \in ExceptionsFor("unavailable") :
            exc.location_id = ABSENT =>
                \A k \in DOMAIN response.locations :
                    LocationException(query.id, query.date,
                                      response.locations[k].location_id) = {}
                      => /\ ~response.locations[k].available
                         /\ response.locations[k].slots = <<>>

(***************************************************************************)
(* Properties of the alternatives search loop (checked under SpecAlt).     *)
(***************************************************************************)
\* what the availability handler reports for (physician, date, location) on
\* the stored state
AvailabilityReports(id, date, loc) ==
    {LocationReport(sc, id, date) : sc \in ScheduleRows(id, Weekday(date), loc)}

RefCount == Len(altRows) * query.dateRange
RefPair(n) == altRows[((n - 1) \div query.dateRange) + 1]
RefOffset(n) == (n - 1) % query.dateRange

\* the slot lists the stored state gives for candidate n
RefSlotLists(n) ==
    {generateTimeSlots(sc, LocationAppointments(RefPair(n)[1], Today + RefOffset(n),
                                                 RefPair(n)[2]),
                       DefaultSlotDuration) :
        sc \in ScheduleRows(RefPair(n)[1], Weekday(Today + RefOffset(n)), RefPair(n)[2])}

\* the candidates kept among the first n, in order: those with a non-empty
\* slot list
RECURSIVE RefKept(_)
RefKept(n) ==
    IF n = 0 THEN <<>>
    ELSE IF \E made \in RefSlotLists(n) : made # <<>>
         THEN Append(RefKept(n - 1), n)
         ELSE RefKept(n - 1)

HasSlotsAt(p, off) ==
    LET rows == ScheduleRows(altRows[p][1], Weekday(Today + off), altRows[p][2])
    IN  /\ rows # {}
        /\ \A sc \in rows :
              generateTimeSlots(sc, LocationAppointments(altRows[p][1], Today + off,
                                                         altRows[p][2]),
                                DefaultSlotDuration) # <<>>

\* the response lists candidate pair p on day offset off
ListedAt(p, off) ==
    \E k \in DOMAIN response.alternatives :
        /\ response.alternatives[k].physician_id = altRows[p][1]
        /\ response.alternatives[k].location_id = altRows[p][2]
        /\ response.alternatives[k].date = Today + off

StartEnd(list) == [i \in DOMAIN list |-> [start |-> list[i].start, end |-> list[i].end]]

\* C29: for the same working period, lunch interval, booked intervals and
\* (positive) slot duration the sweep of /:id/available-slots emits exactly
\* the slot sequence generateTimeSlots emits.
C29_LegacySweepMatchesGenerator ==
    (gpc = "done" /\ slotDuration >= 1) =>
        StartEnd(slots) =
            StartEnd(generateTimeSlots(schedule, bookedAppointments, slotDuration))

\* C30: every slot sweep terminates, for every 'duration' the route can
\* receive, 0 and negative values included: the loop ends and the request
\* completes.
C30_SweepTerminates == <>(gpc = "done")

====
